---- MODULE Spec2Model ----
(***************************************************************************)
(* The two WebSocket handlers of backend/app/api/routes/environments.py:   *)
(* watch_environments_websocket and terminal_websocket.  One session is    *)
(* modelled: the handler coroutine, its reader tasks (stdout, stderr), the *)
(* inbound relay task of the terminal channel, the spawned process and the *)
(* peer.  A step of the model is what a coroutine runs between two awaits. *)
(*                                                                         *)
(* Text is a sequence of code points, bytes are a sequence of 0..255, and  *)
(* the UTF-8 conversions between them are computed.                        *)
(*                                                                         *)
(* The HTTP routes get_environment_logs, get_environment_diff and          *)
(* execute_action are modelled in HttpSpec: one request, the command it    *)
(* runs (core/container_use.py) and the response.                          *)
(***************************************************************************)
EXTENDS Integers, Sequences, FiniteSets, TLC

\* I/O events of the environment in one session: bytes the process writes
\* to its output streams plus frames the peer sends.
MaxIO == 2
\* Writes the input pipe holds before drain() suspends the writer.
StdinCap == 1

VARIABLES
    channel,      \* "watch" | "terminal": which handler serves the session
    envId,        \* the environment_id path parameter (terminal)
    pc,           \* position of the handler coroutine
    exc,          \* an exception was raised inside the handler's try statement
    peer,         \* "open" | "closed": the client's side of the connection
    inbox,        \* frames sent by the peer and not yet received
    nIO,          \* bytes written by the process plus frames sent by the peer
    wsClosed,     \* the handler called websocket.close()
    proc,         \* "none" | "running" | "exited" (returncode is set)
    spawns,       \* calls of create_subprocess_exec
    termSent,     \* calls of process.terminate()
    killSent,     \* calls of process.kill()
    outBuf,       \* per output stream: bytes written by the process, unread
    eof,          \* per output stream: the process closed its end
    task,         \* per task: its position
    cur,          \* per output stream: the unit read and not yet sent
    unitsRead,    \* per output stream: the non-empty units read so far
    sent,         \* messages handed to websocket.send_json, in order
    stdinState,   \* "none" | "open" | "closed": process.stdin
    stdinBuf,     \* writes sitting in the input pipe
    stdinWrites,  \* byte strings handed to process.stdin.write, in order
    tdBegun,      \* the finally block has been entered
    ci,           \* index of the task the cancel loop is at
    http          \* the HTTP request being served and its response

vars == <<channel, envId, pc, exc, peer, inbox, nIO, wsClosed, proc, spawns,
          termSent, killSent, outBuf, eof, task, cur, unitsRead, sent,
          stdinState, stdinBuf, stdinWrites, tdBegun, ci, http>>

Streams == {"stdout", "stderr"}
Relay == "input"
TaskNames == Streams \cup {Relay}

\* tasks = [...] in creation order
TaskList == IF channel = "watch" THEN <<"stdout", "stderr">>
            ELSE <<"stdout", "stderr", "input">>

Finished(t) == task[t] \in {"done", "cancelled"}

----------------------------------------------------------------------------
(* UTF-8 *)

\* Byte values the process writes: "\n", "a", and 0xC3 0xA9, the two bytes
\* of one character, each of which does not decode without the other.
OutBytes == {10, 97, 195, 169}

IsCont(b) == b >= 128 /\ b <= 191

\* bytes.decode("utf-8"): [ok |-> TRUE, text |-> code points] or ok = FALSE
\* (UnicodeDecodeError).
RECURSIVE DecodeFrom(_, _, _)
DecodeFrom(bs, i, acc) ==
    IF i > Len(bs) THEN [ok |-> TRUE, text |-> acc]
    ELSE IF bs[i] < 128 THEN DecodeFrom(bs, i + 1, Append(acc, bs[i]))
    ELSE IF bs[i] >= 194 /\ bs[i] <= 223 /\ i + 1 <= Len(bs) /\ IsCont(bs[i + 1])
         THEN DecodeFrom(bs, i + 2,
                         Append(acc, (bs[i] - 192) * 64 + (bs[i + 1] - 128)))
    ELSE IF bs[i] >= 224 /\ bs[i] <= 239 /\ i + 2 <= Len(bs)
            /\ IsCont(bs[i + 1]) /\ IsCont(bs[i + 2])
            /\ (bs[i] # 224 \/ bs[i + 1] >= 160)
            /\ (bs[i] # 237 \/ bs[i + 1] <= 159)
         THEN DecodeFrom(bs, i + 3,
                         Append(acc, (bs[i] - 224) * 4096
                                     + (bs[i + 1] - 128) * 64 + (bs[i + 2] - 128)))
    ELSE [ok |-> FALSE, text |-> <<>>]

Decode(bs) == DecodeFrom(bs, 1, <<>>)

IsSurrogate(c) == c >= 55296 /\ c <= 57343

EncodeChar(c) ==
    IF c < 128 THEN <<c>>
    ELSE IF c < 2048 THEN <<192 + (c \div 64), 128 + (c % 64)>>
    ELSE <<224 + (c \div 4096), 128 + ((c \div 64) % 64), 128 + (c % 64)>>

\* str.encode("utf-8"): [ok |-> TRUE, bytes |-> ...] or ok = FALSE
\* (UnicodeEncodeError: surrogates not allowed).
RECURSIVE EncodeFrom(_, _, _)
EncodeFrom(cs, i, acc) ==
    IF i > Len(cs) THEN [ok |-> TRUE, bytes |-> acc]
    ELSE IF IsSurrogate(cs[i]) THEN [ok |-> FALSE, bytes |-> <<>>]
    ELSE EncodeFrom(cs, i + 1, acc \o EncodeChar(cs[i]))

Encode(cs) == EncodeFrom(cs, 1, <<>>)

----------------------------------------------------------------------------
(* Frames of the peer and what receive_text / receive_json make of them *)

\* A frame is binary or text; a text frame carries its raw text.
Frames ==
    { [kind |-> "bytes", raw |-> "x"],
      [kind |-> "text", raw |-> "{bad"],
      [kind |-> "text", raw |-> "[1]"],
      [kind |-> "text", raw |-> "{type:resize}"],
      [kind |-> "text", raw |-> "{type:stdin,data:5}"],
      [kind |-> "text", raw |-> "{type:stdin,data:a}"],
      [kind |-> "text", raw |-> "{type:stdin,data:e-acute}"],
      [kind |-> "text", raw |-> "{type:stdin,data:\\ud800}"] }

\* json.loads(raw) for the raw texts above: ok = FALSE is JSONDecodeError;
\* obj tells a dict from another JSON value; type is message.get("type");
\* str tells whether message.get("data", "") is a str, and data is its text.
JsonLoads(raw) ==
    CASE raw = "{bad" ->
            [ok |-> FALSE, obj |-> FALSE, type |-> "", str |-> FALSE, data |-> <<>>]
      [] raw = "[1]" ->
            [ok |-> TRUE, obj |-> FALSE, type |-> "", str |-> FALSE, data |-> <<>>]
      [] raw = "{type:resize}" ->
            [ok |-> TRUE, obj |-> TRUE, type |-> "resize", str |-> TRUE, data |-> <<>>]
      [] raw = "{type:stdin,data:5}" ->
            [ok |-> TRUE, obj |-> TRUE, type |-> "stdin", str |-> FALSE, data |-> <<>>]
      [] raw = "{type:stdin,data:a}" ->
            [ok |-> TRUE, obj |-> TRUE, type |-> "stdin", str |-> TRUE, data |-> <<97>>]
      [] raw = "{type:stdin,data:e-acute}" ->
            [ok |-> TRUE, obj |-> TRUE, type |-> "stdin", str |-> TRUE, data |-> <<233>>]
      [] raw = "{type:stdin,data:\\ud800}" ->
            [ok |-> TRUE, obj |-> TRUE, type |-> "stdin", str |-> TRUE, data |-> <<55296>>]
      [] OTHER ->
            [ok |-> FALSE, obj |-> FALSE, type |-> "", str |-> FALSE, data |-> <<>>]

\* What one pass of handle_websocket_input's loop body does with a frame:
\* "write" (a stdin command: its bytes go to process.stdin), "ignore" (the
\* loop goes on) or "break" (an exception reaches `except Exception: break`).
RelayOutcome(f) ==
    IF f.kind # "text" THEN [act |-> "break", bytes |-> <<>>]      \* message["text"]
    ELSE LET v == JsonLoads(f.raw) IN
         IF ~v.ok THEN [act |-> "break", bytes |-> <<>>]           \* json.loads
         ELSE IF ~v.obj THEN [act |-> "break", bytes |-> <<>>]     \* message.get
         ELSE IF v.type # "stdin" THEN [act |-> "ignore", bytes |-> <<>>]
         ELSE IF ~v.str THEN [act |-> "break", bytes |-> <<>>]     \* data.encode
         ELSE LET e == Encode(v.data) IN
              IF e.ok THEN [act |-> "write", bytes |-> e.bytes]
              ELSE [act |-> "break", bytes |-> <<>>]

----------------------------------------------------------------------------
(* Messages to the peer *)

StreamMsg(s, text) == [type |-> s, data |-> text, text |-> ""]
\* {"type": "error", "data": f"... error: {e}"}
ErrorMsg == [type |-> "error", data |-> <<>>,
             text |-> IF channel = "watch" THEN "WebSocket error" ELSE "Terminal error"]
\* {"error": "Environment ID is required"}: it has no "type" key
EnvIdMsg == [type |-> "", data |-> <<>>, text |-> "Environment ID is required"]

Sent(m, ok) == Append(sent, [msg |-> m, ok |-> ok])

\* The messages of stream s that reached the peer, in order.
Delivered(s) == SelectSeq(sent, LAMBDA r : r.ok /\ r.msg.type = s)

\* The {"type": "error"} messages handed to send_json.
ErrorsSent == SelectSeq(sent, LAMBDA r : r.msg.type = "error")

----------------------------------------------------------------------------
\* The state of a WebSocket session before its handler has run a step.
SessionStart ==
    /\ pc = "start"
    /\ exc = FALSE
    /\ peer = "open"
    /\ inbox = <<>>
    /\ nIO = 0
    /\ wsClosed = FALSE
    /\ proc = "none"
    /\ spawns = 0
    /\ termSent = 0
    /\ killSent = 0
    /\ outBuf = [s \in Streams |-> <<>>]
    /\ eof = [s \in Streams |-> FALSE]
    /\ task = [t \in TaskNames |-> "none"]
    /\ cur = [s \in Streams |-> <<>>]
    /\ unitsRead = [s \in Streams |-> <<>>]
    /\ sent = <<>>
    /\ stdinState = "none"
    /\ stdinBuf = 0
    /\ stdinWrites = <<>>
    /\ tdBegun = FALSE
    /\ ci = 0

\* No HTTP request is being served.
NoResult == [stdout |-> <<>>, stderr |-> <<>>, return_code |-> 0]

NoRequest == [route |-> "", action |-> "", environment_id |-> "", pc |-> "none",
              args |-> <<>>, ran |-> 0, result |-> NoResult, status |-> 0,
              body |-> <<>>]

Init ==
    /\ channel \in {"watch", "terminal"}
    /\ envId \in {"", "env-7"}
    /\ (channel = "watch" => envId = "")
    /\ SessionStart
    /\ http = NoRequest

----------------------------------------------------------------------------
(* The peer and the process: the environment of the handler *)

Over == pc \in {"returned", "raised"}

\* The watch handler takes frames with receive_text and drops the text, so
\* one text frame stands for all of them there.
PeerFrames ==
    IF channel = "watch" THEN {f \in Frames : f.raw \in {"x", "{bad"}} ELSE Frames

PeerSend ==
    /\ ~Over /\ peer = "open" /\ nIO < MaxIO
    /\ \E f \in PeerFrames : inbox' = Append(inbox, f)
    /\ nIO' = nIO + 1
    /\ UNCHANGED <<http, channel, envId, pc, exc, peer, wsClosed, proc, spawns, termSent,
                   killSent, outBuf, eof, task, cur, unitsRead, sent,
                   stdinState, stdinBuf, stdinWrites, tdBegun, ci>>

PeerClose ==
    /\ ~Over /\ peer = "open"
    /\ peer' = "closed"
    /\ UNCHANGED <<http, channel, envId, pc, exc, inbox, nIO, wsClosed, proc, spawns,
                   termSent, killSent, outBuf, eof, task, cur, unitsRead,
                   sent, stdinState, stdinBuf, stdinWrites, tdBegun, ci>>

\* The process writes one byte to one of its output streams.
ProcEmit ==
    /\ ~Over /\ proc = "running" /\ nIO < MaxIO
    /\ \E s \in Streams, b \in OutBytes :
          /\ ~eof[s]
          /\ outBuf' = [outBuf EXCEPT ![s] = Append(@, b)]
    /\ nIO' = nIO + 1
    /\ UNCHANGED <<http, channel, envId, pc, exc, peer, inbox, wsClosed, proc, spawns,
                   termSent, killSent, eof, task, cur, unitsRead, sent,
                   stdinState, stdinBuf, stdinWrites, tdBegun, ci>>

\* The process closes one output stream and goes on running.
ProcCloseStream ==
    /\ ~Over /\ proc = "running"
    /\ \E s \in Streams :
          /\ ~eof[s]
          /\ eof' = [eof EXCEPT ![s] = TRUE]
    /\ UNCHANGED <<http, channel, envId, pc, exc, peer, inbox, nIO, wsClosed, proc, spawns,
                   termSent, killSent, outBuf, task, cur, unitsRead, sent,
                   stdinState, stdinBuf, stdinWrites, tdBegun, ci>>

\* The process reads one write from its input pipe.
ProcReadStdin ==
    /\ ~Over /\ proc = "running" /\ stdinBuf > 0
    /\ stdinBuf' = stdinBuf - 1
    /\ UNCHANGED <<http, channel, envId, pc, exc, peer, inbox, nIO, wsClosed, proc, spawns,
                   termSent, killSent, outBuf, eof, task, cur, unitsRead,
                   sent, stdinState, stdinWrites, tdBegun, ci>>

\* The process exits (on its own, or on a signal) and the event loop sets
\* process.returncode; its pipes reach end of file.
ProcExit ==
    /\ ~Over /\ proc = "running"
    /\ proc' = "exited"
    /\ eof' = [s \in Streams |-> TRUE]
    /\ stdinBuf' = 0
    /\ UNCHANGED <<http, channel, envId, pc, exc, peer, inbox, nIO, wsClosed, spawns,
                   termSent, killSent, outBuf, task, cur, unitsRead, sent,
                   stdinState, stdinWrites, tdBegun, ci>>

----------------------------------------------------------------------------
(* The reader tasks: handle_stdout, handle_stderr *)

HasNewline(bs) == \E i \in 1..Len(bs) : bs[i] = 10

FirstNewline(bs) == CHOOSE i \in 1..Len(bs) :
                        bs[i] = 10 /\ \A j \in 1..(i - 1) : bs[j] # 10

ChunkSize == 1024

Min(a, b) == IF a < b THEN a ELSE b

\* The number of bytes the next read of stream s returns, and whether the
\* read returns at all.  readline() returns through the first "\n", or at
\* end of file whatever is left (b"" when nothing is); read(1024) returns
\* what is buffered, up to 1024 bytes, or b"" at end of file.
ReadReady(s) ==
    IF channel = "watch" THEN HasNewline(outBuf[s]) \/ eof[s]
    ELSE outBuf[s] # <<>> \/ eof[s]

ReadLen(s) ==
    IF channel = "watch"
    THEN IF HasNewline(outBuf[s]) THEN FirstNewline(outBuf[s]) ELSE Len(outBuf[s])
    ELSE Min(ChunkSize, Len(outBuf[s]))

\* line = await process.<s>.readline() / data = await process.<s>.read(1024),
\* and `if not line: break`.
ReadUnit(s) ==
    /\ task[s] = "read" /\ ReadReady(s)
    /\ LET n == ReadLen(s)
           unit == SubSeq(outBuf[s], 1, n) IN
       /\ outBuf' = [outBuf EXCEPT ![s] = SubSeq(@, n + 1, Len(@))]
       /\ IF unit = <<>>
          THEN /\ task' = [task EXCEPT ![s] = "done"]
               /\ UNCHANGED <<cur, unitsRead>>
          ELSE /\ task' = [task EXCEPT ![s] = "send"]
               /\ cur' = [cur EXCEPT ![s] = unit]
               /\ unitsRead' = [unitsRead EXCEPT ![s] = Append(@, unit)]
    /\ UNCHANGED <<http, channel, envId, pc, exc, peer, inbox, nIO, wsClosed, proc, spawns,
                   termSent, killSent, eof, sent, stdinState, stdinBuf,
                   stdinWrites, tdBegun, ci>>

\* A bug OnReaderError could have: `except Exception: continue`.
OnReaderErrorContinue(s) == task' = [task EXCEPT ![s] = "read"]

\* What the reader does with a unit whose decoding failed or whose send
\* raised: `except Exception: break`.
OnReaderError(s) == task' = [task EXCEPT ![s] = "done"]

\* await websocket.send_json({"type": s, "data": unit.decode("utf-8")}).
\* With the peer gone, send_json raises.
SendUnit(s) ==
    /\ task[s] = "send"
    /\ LET d == Decode(cur[s]) IN
       IF ~d.ok
       THEN /\ OnReaderError(s)
            /\ UNCHANGED sent
       ELSE IF peer = "open"
       THEN /\ sent' = Sent(StreamMsg(s, d.text), TRUE)
            /\ task' = [task EXCEPT ![s] = "read"]
       ELSE /\ sent' = Sent(StreamMsg(s, d.text), FALSE)
            /\ OnReaderError(s)
    /\ cur' = [cur EXCEPT ![s] = <<>>]
    /\ UNCHANGED <<http, channel, envId, pc, exc, peer, inbox, nIO, wsClosed, proc, spawns,
                   termSent, killSent, outBuf, eof, unitsRead, stdinState,
                   stdinBuf, stdinWrites, tdBegun, ci>>

Reader == \E s \in Streams : ReadUnit(s) \/ SendUnit(s)

----------------------------------------------------------------------------
(* The inbound relay task of the terminal channel: handle_websocket_input *)

\* A bug WriteInput could have: the payload written twice.
WriteInputTwice(bs) ==
    /\ stdinWrites' = Append(Append(stdinWrites, bs), bs)
    /\ IF stdinState = "open" /\ proc = "running"
       THEN /\ stdinBuf' = stdinBuf + 1
            /\ task' = [task EXCEPT ![Relay] =
                           IF stdinBuf + 1 > StdinCap THEN "drain" ELSE "recv"]
       ELSE /\ UNCHANGED stdinBuf
            /\ \/ task' = [task EXCEPT ![Relay] = "done"]
               \/ task' = [task EXCEPT ![Relay] = "recv"]

\* process.stdin.write(bytes); await process.stdin.drain().  The write is
\* handed to the transport in every case.  On an open pipe of a running
\* process it is buffered, and drain() suspends once more than StdinCap
\* writes are unread.  On a pipe that teardown closed, or whose process has
\* exited, the bytes are lost and drain() raises ConnectionResetError or
\* returns, depending on whether connection_lost has run.
WriteInput(bs) ==
    /\ stdinWrites' = Append(stdinWrites, bs)
    /\ IF stdinState = "open" /\ proc = "running"
       THEN /\ stdinBuf' = stdinBuf + 1
            /\ task' = [task EXCEPT ![Relay] =
                           IF stdinBuf + 1 > StdinCap THEN "drain" ELSE "recv"]
       ELSE /\ UNCHANGED stdinBuf
            /\ \/ task' = [task EXCEPT ![Relay] = "done"]
               \/ task' = [task EXCEPT ![Relay] = "recv"]

\* message = await websocket.receive_json() and the loop body.
RelayReceive ==
    /\ task[Relay] = "recv"
    /\ \/ /\ inbox # <<>>
          /\ inbox' = Tail(inbox)
          /\ LET o == RelayOutcome(Head(inbox)) IN
             CASE o.act = "write" -> WriteInput(o.bytes)
               [] o.act = "ignore" -> UNCHANGED <<task, stdinBuf, stdinWrites>>
               [] OTHER -> /\ task' = [task EXCEPT ![Relay] = "done"]
                           /\ UNCHANGED <<stdinBuf, stdinWrites>>
       \/ /\ inbox = <<>> /\ peer = "closed"       \* WebSocketDisconnect
          /\ task' = [task EXCEPT ![Relay] = "done"]
          /\ UNCHANGED <<inbox, stdinBuf, stdinWrites>>
    /\ UNCHANGED <<http, channel, envId, pc, exc, peer, nIO, wsClosed, proc, spawns,
                   termSent, killSent, outBuf, eof, cur, unitsRead, sent,
                   stdinState, tdBegun, ci>>

\* The suspended drain() resumes: the process has read (resume_writing), or
\* the pipe was closed or broke (the waiter returns, or raises).
RelayDrain ==
    /\ task[Relay] = "drain"
    /\ \/ /\ stdinState = "open" /\ proc = "running" /\ stdinBuf <= StdinCap
          /\ task' = [task EXCEPT ![Relay] = "recv"]
       \/ /\ stdinState # "open" \/ proc # "running"
          /\ \/ task' = [task EXCEPT ![Relay] = "done"]
             \/ task' = [task EXCEPT ![Relay] = "recv"]
    /\ UNCHANGED <<http, channel, envId, pc, exc, peer, inbox, nIO, wsClosed, proc, spawns,
                   termSent, killSent, outBuf, eof, cur, unitsRead, sent,
                   stdinState, stdinBuf, stdinWrites, tdBegun, ci>>

\* A task whose cancel() was called gets CancelledError at its await.
TaskAck ==
    /\ \E t \in TaskNames :
          /\ task[t] = "cancelling"
          /\ task' = [task EXCEPT ![t] = "cancelled"]
    /\ UNCHANGED <<http, channel, envId, pc, exc, peer, inbox, nIO, wsClosed, proc, spawns,
                   termSent, killSent, outBuf, eof, cur, unitsRead, sent,
                   stdinState, stdinBuf, stdinWrites, tdBegun, ci>>

----------------------------------------------------------------------------
(* The handler coroutine *)

\* The first task at or after index i that has not finished, 0 if none.
NextLive(i) ==
    LET live == {j \in i..Len(TaskList) : ~Finished(TaskList[j])} IN
    IF live = {} THEN 0 ELSE CHOOSE j \in live : \A k \in live : j <= k

\* A bug AfterFinally could have: a disconnect reported like an exception.
AfterFinallyAlwaysExcept(e) == "except"

\* Where the handler goes when the try statement is left: to the
\* `except Exception` clause with an exception, out of the function without.
AfterFinally(e) == IF e THEN "except" ELSE "returned"

\* A bug CancelLoop could have: the tasks cancelled but not awaited.
CancelLoopNoAwait(i, e) ==
    /\ pc' = AfterFinally(e)
    /\ ci' = 0
    /\ task' = [t \in TaskNames |->
                   IF \E j \in i..Len(TaskList) : TaskList[j] = t /\ ~Finished(t)
                   THEN "cancelling" ELSE task[t]]

\* for task in tasks: task.cancel(); await task -- from index i on.  A task
\* already finished is passed without suspending; at the first one that is
\* not, the handler suspends in `await task`.
CancelLoop(i, e) ==
    LET j == NextLive(i) IN
    IF j = 0
    THEN /\ pc' = AfterFinally(e)
         /\ ci' = 0
         /\ UNCHANGED task
    ELSE /\ pc' = "td_await"
         /\ ci' = j
         /\ task' = [task EXCEPT ![TaskList[j]] = "cancelling"]

\* The part of cleanup that sends the first signal, under
\* `if process.returncode is None`: (terminal) process.stdin.close(), then
\* process.terminate().
Terminate ==
    /\ stdinState' = IF channel = "terminal" THEN "closed" ELSE stdinState
    /\ termSent' = termSent + 1
    /\ pc' = "td_wait"
    /\ UNCHANGED <<ci, task>>

\* A bug BeginTeardown could have: `if process.returncode is None` left out.
BeginTeardownUnchecked(e) ==
    /\ tdBegun' = TRUE
    /\ exc' = e
    /\ Terminate

\* The finally block up to its first await; e tells whether an exception is
\* propagating.
BeginTeardown(e) ==
    /\ tdBegun' = TRUE
    /\ exc' = e
    /\ IF proc = "running"
       THEN Terminate
       ELSE /\ CancelLoop(1, e)
            /\ UNCHANGED <<stdinState, termSent>>

\* A bug EnvIdMissing could have: the check left out.
EnvIdNotChecked == FALSE

\* terminal_websocket: `if not environment_id:`
EnvIdMissing == channel = "terminal" /\ envId = ""

\* await websocket.send_json({"error": ...}).  The line is outside the try
\* statement: a send that raises leaves the handler.
EnvIdSend ==
    /\ pc = "start" /\ EnvIdMissing
    /\ \/ /\ peer = "open"
          /\ sent' = Sent(EnvIdMsg, TRUE)
          /\ pc' = "env_close"
       \/ /\ peer = "closed"
          /\ sent' = Sent(EnvIdMsg, FALSE)
          /\ pc' = "raised"
    /\ UNCHANGED <<http, channel, envId, exc, peer, inbox, nIO, wsClosed, proc, spawns,
                   termSent, killSent, outBuf, eof, task, cur, unitsRead,
                   stdinState, stdinBuf, stdinWrites, tdBegun, ci>>

\* await websocket.close(); return
EnvIdClose ==
    /\ pc = "env_close"
    /\ wsClosed' = TRUE
    /\ pc' = "returned"
    /\ UNCHANGED <<http, channel, envId, exc, peer, inbox, nIO, proc, spawns, termSent,
                   killSent, outBuf, eof, task, cur, unitsRead, sent,
                   stdinState, stdinBuf, stdinWrites, tdBegun, ci>>

\* A bug OnSpawnError could have: the spawn tried again.
OnSpawnErrorRetry ==
    /\ pc' = "start"
    /\ UNCHANGED <<exc, proc, task, stdinState>>

\* What the handler does when create_subprocess_exec raises: the exception
\* goes to `except Exception`.
OnSpawnError ==
    /\ pc' = "except"
    /\ exc' = TRUE
    /\ UNCHANGED <<proc, task, stdinState>>

\* process = await asyncio.create_subprocess_exec(...), and on success the
\* tasks = [create_task(...), ...] that follow it without an await.
Spawn ==
    /\ pc = "start" /\ ~EnvIdMissing
    /\ spawns' = spawns + 1
    /\ \/ /\ proc' = "running"
          /\ UNCHANGED exc
          /\ stdinState' = IF channel = "terminal" THEN "open" ELSE "none"
          /\ task' = [t \in TaskNames |->
                         IF t \in Streams THEN "read"
                         ELSE IF channel = "terminal" THEN "recv" ELSE "none"]
          /\ pc' = "main"
       \/ OnSpawnError
    /\ UNCHANGED <<http, channel, envId, peer, inbox, nIO, wsClosed, termSent,
                   killSent, outBuf, eof, cur, unitsRead, sent, stdinBuf,
                   stdinWrites, tdBegun, ci>>

\* watch: `while True: await websocket.receive_text()`.  A text frame is
\* dropped; WebSocketDisconnect breaks the loop; a binary frame has no
\* "text" key and receive_text raises KeyError.
WatchReceive ==
    /\ pc = "main" /\ channel = "watch"
    /\ \/ /\ inbox # <<>> /\ Head(inbox).kind = "text"
          /\ inbox' = Tail(inbox)
          /\ UNCHANGED <<pc, exc, tdBegun, stdinState, termSent, ci, task>>
       \/ /\ inbox # <<>> /\ Head(inbox).kind # "text"
          /\ inbox' = Tail(inbox)
          /\ BeginTeardown(TRUE)
       \/ /\ inbox = <<>> /\ peer = "closed"
          /\ UNCHANGED inbox
          /\ BeginTeardown(FALSE)
    /\ UNCHANGED <<http, channel, envId, peer, nIO, wsClosed, proc, spawns, killSent,
                   outBuf, eof, cur, unitsRead, sent, stdinBuf, stdinWrites>>

\* A bug WaitReturns could have: return_when=ALL_COMPLETED.
WaitReturnsAllCompleted == \A t \in TaskNames : task[t] = "done"

\* The condition asyncio.wait(tasks, return_when=FIRST_COMPLETED) returns on.
WaitReturns == \E t \in TaskNames : task[t] = "done"

\* terminal: done, pending = await asyncio.wait(tasks, FIRST_COMPLETED)
TerminalWait ==
    /\ pc = "main" /\ channel = "terminal"
    /\ WaitReturns
    /\ BeginTeardown(FALSE)
    /\ UNCHANGED <<http, channel, envId, peer, inbox, nIO, wsClosed, proc, spawns,
                   killSent, outBuf, eof, cur, unitsRead, sent, stdinBuf,
                   stdinWrites>>

\* await asyncio.wait_for(process.wait(), timeout=5.0) returns: the process
\* exited within the bound.
WaitExited ==
    /\ pc = "td_wait" /\ proc = "exited"
    /\ CancelLoop(1, exc)
    /\ UNCHANGED <<http, channel, envId, exc, peer, inbox, nIO, wsClosed, proc, spawns,
                   termSent, killSent, outBuf, eof, cur, unitsRead, sent,
                   stdinState, stdinBuf, stdinWrites, tdBegun>>

\* A bug OnTimeout could have: `except asyncio.TimeoutError: pass`.
OnTimeoutPassed ==
    /\ killSent' = killSent
    /\ pc' = AfterFinally(exc)

\* What `except asyncio.TimeoutError` does: process.kill(), then
\* await process.wait() with no bound.
OnTimeout ==
    /\ killSent' = killSent + 1
    /\ pc' = "td_reap"

\* The 5 s bound expires with the process still running.
WaitTimeout ==
    /\ pc = "td_wait" /\ proc = "running"
    /\ OnTimeout
    /\ UNCHANGED <<http, channel, envId, exc, peer, inbox, nIO, wsClosed, proc, spawns,
                   termSent, outBuf, eof, task, cur, unitsRead, sent,
                   stdinState, stdinBuf, stdinWrites, tdBegun, ci>>

\* A bug Reaped could have: the wait after kill() not awaited.
ReapedEarly ==
    /\ pc = "td_reap"
    /\ CancelLoop(1, exc)
    /\ UNCHANGED <<http, channel, envId, exc, peer, inbox, nIO, wsClosed, proc, spawns,
                   termSent, killSent, outBuf, eof, cur, unitsRead, sent,
                   stdinState, stdinBuf, stdinWrites, tdBegun>>

\* await process.wait() after kill() returns.
Reaped ==
    /\ pc = "td_reap" /\ proc = "exited"
    /\ CancelLoop(1, exc)
    /\ UNCHANGED <<http, channel, envId, exc, peer, inbox, nIO, wsClosed, proc, spawns,
                   termSent, killSent, outBuf, eof, cur, unitsRead, sent,
                   stdinState, stdinBuf, stdinWrites, tdBegun>>

\* `await task` returns (or raises the CancelledError that is passed over)
\* and the cancel loop goes on.
AwaitTask ==
    /\ pc = "td_await" /\ Finished(TaskList[ci])
    /\ CancelLoop(ci + 1, exc)
    /\ UNCHANGED <<http, channel, envId, exc, peer, inbox, nIO, wsClosed, proc, spawns,
                   termSent, killSent, outBuf, eof, cur, unitsRead, sent,
                   stdinState, stdinBuf, stdinWrites, tdBegun>>

\* except Exception as e: try: await websocket.send_json({"type": "error",
\* ...}) except Exception: pass
ExceptSend ==
    /\ pc = "except"
    /\ sent' = Sent(ErrorMsg, peer = "open")
    /\ pc' = "returned"
    /\ UNCHANGED <<http, channel, envId, exc, peer, inbox, nIO, wsClosed, proc, spawns,
                   termSent, killSent, outBuf, eof, task, cur, unitsRead,
                   stdinState, stdinBuf, stdinWrites, tdBegun, ci>>

----------------------------------------------------------------------------
Handler ==
    \/ EnvIdSend \/ EnvIdClose \/ Spawn \/ WatchReceive \/ TerminalWait
    \/ WaitExited \/ WaitTimeout \/ Reaped \/ AwaitTask \/ ExceptSend

Tasks == Reader \/ RelayReceive \/ RelayDrain \/ TaskAck

Environment ==
    \/ PeerSend \/ PeerClose \/ ProcEmit \/ ProcCloseStream \/ ProcReadStdin
    \/ ProcExit

Next == Handler \/ Tasks \/ Environment

Spec == Init /\ [][Next]_vars

\* The event loop runs every coroutine that can run; the 5 s timer fires;
\* a process that was sent SIGKILL exits.  The peer and the process are
\* otherwise free to do nothing.
FairSpec ==
    /\ Spec
    /\ WF_vars(Handler)
    /\ WF_vars(Tasks)
    /\ WF_vars(ProcExit /\ killSent > 0)

----------------------------------------------------------------------------
(* The HTTP routes get_environment_logs, get_environment_diff and           *)
(* execute_action, and run_container_use_command                            *)

session == <<channel, envId, pc, exc, peer, inbox, nIO, wsClosed, proc, spawns,
             termSent, killSent, outBuf, eof, task, cur, unitsRead, sent,
             stdinState, stdinBuf, stdinWrites, tdBegun, ci>>

\* "not found" and "does not exist"
NotFound == <<110, 111, 116, 32, 102, 111, 117, 110, 100>>
DoesNotExist == <<100, 111, 101, 115, 32, 110, 111, 116, 32, 101, 120, 105, 115, 116>>

\* What the tool may print: nothing, "Not Found", "does NOT exist",
\* "notfound", "warn".
Texts ==
    { <<>>,
      <<78, 111, 116, 32, 70, 111, 117, 110, 100>>,
      <<100, 111, 101, 115, 32, 78, 79, 84, 32, 101, 120, 105, 115, 116>>,
      <<110, 111, 116, 102, 111, 117, 110, 100>>,
      <<119, 97, 114, 110>> }

\* str(e) of the exceptions run_container_use_command catches: "No such
\* file" (the executable is missing), "codec" (UnicodeDecodeError).
NoSuchFile == <<78, 111, 32, 115, 117, 99, 104, 32, 102, 105, 108, 101>>
CodecError == <<99, 111, 100, 101, 99>>

\* The bytes the tool writes to a pipe: the texts encoded, or a lone 0xC3.
RawOutputs == {Encode(t).bytes : t \in Texts} \cup {<<195>>}

\* process.returncode after communicate(): -9 is death by SIGKILL.
ReturnCodes == {0, 1, -9}

\* The return statement after communicate(): both outputs decoded, an
\* empty one to "", `returncode or 0`; a decode that raises goes to
\* `except Exception as e: return "", str(e), 1`.
Communicate(o, e, rc) ==
    IF Decode(o).ok /\ Decode(e).ok
    THEN [stdout |-> IF o # <<>> THEN Decode(o).text ELSE <<>>,
          stderr |-> IF e # <<>> THEN Decode(e).text ELSE <<>>,
          return_code |-> IF rc # 0 THEN rc ELSE 0]
    ELSE [stdout |-> <<>>, stderr |-> CodecError, return_code |-> 1]

\* The triples run_container_use_command can return: create_subprocess_exec
\* raised, or the process ran.
run_container_use_command ==
    {[stdout |-> <<>>, stderr |-> NoSuchFile, return_code |-> 1]}
    \cup {Communicate(o, e, rc) : o \in RawOutputs, e \in RawOutputs, rc \in ReturnCodes}

\* str.lower() on ASCII text
Lower(cs) == [i \in 1..Len(cs) |->
                 IF cs[i] >= 65 /\ cs[i] <= 90 THEN cs[i] + 32 ELSE cs[i]]

\* needle in hay
In(needle, hay) ==
    \E i \in 0..(Len(hay) - Len(needle)) : SubSeq(hay, i + 1, i + Len(needle)) = needle

\* error_output = stderr or stdout
ErrorOutput(r) == IF r.stderr # <<>> THEN r.stderr ELSE r.stdout

\* is_not_found = "not found" in error_output.lower() or "does not exist"
\* in error_output.lower()
IsNotFound(r) ==
    \/ In(NotFound, Lower(ErrorOutput(r)))
    \/ In(DoesNotExist, Lower(ErrorOutput(r)))

\* raise HTTPException(status_code=400, ...) before any command is run
BadRequest ==
    http' = [http EXCEPT !.pc = "done", !.status = 400]

\* The handler from its call of run_container_use_command(args) on: the
\* three routes share these lines.
RunAndRespond(args) ==
    \E r \in run_container_use_command :
        http' = [http EXCEPT
                    !.pc = "done", !.args = args, !.ran = @ + 1, !.result = r,
                    !.status = IF r.return_code = 0 THEN 200
                               ELSE IF IsNotFound(r) THEN 404 ELSE 500,
                    !.body = IF r.return_code = 0 THEN r.stdout ELSE ErrorOutput(r)]

get_environment_logs ==
    /\ http.pc = "pending" /\ http.route = "logs"
    /\ IF http.environment_id = "" THEN BadRequest
       ELSE RunAndRespond(<<"log", http.environment_id>>)
    /\ UNCHANGED session

get_environment_diff ==
    /\ http.pc = "pending" /\ http.route = "diff"
    /\ IF http.environment_id = "" THEN BadRequest
       ELSE RunAndRespond(<<"diff", http.environment_id>>)
    /\ UNCHANGED session

valid_actions == {"apply", "checkout", "delete", "merge"}

execute_action ==
    /\ http.pc = "pending" /\ http.route = "actions"
    /\ IF http.action = "" \/ http.environment_id = "" THEN BadRequest
       ELSE IF http.action \notin valid_actions THEN BadRequest
       ELSE RunAndRespond(<<http.action, http.environment_id>>)
    /\ UNCHANGED session

\* The requests: a route, the action of the request body (execute_action
\* only) and the environment id.
Requests ==
    [route : {"logs", "diff"}, action : {""}, environment_id : {"", "env-7"}]
    \cup [route : {"actions"},
          action : {"", "apply", "checkout", "delete", "merge", "destroy"},
          environment_id : {"", "env-7"}]

HttpInit ==
    /\ channel = "watch" /\ envId = ""
    /\ SessionStart
    /\ \E q \in Requests :
          http = [NoRequest EXCEPT !.route = q.route, !.action = q.action,
                                   !.environment_id = q.environment_id,
                                   !.pc = "pending"]

HttpNext == get_environment_logs \/ get_environment_diff \/ execute_action

HttpSpec == HttpInit /\ [][HttpNext]_vars

----------------------------------------------------------------------------
(* Properties *)

Spawned == proc # "none"

AnyTaskDone == \E t \in TaskNames : task[t] = "done"

\* C1.  No orphan process: once the handler of a session that spawned its
\* process has returned, the process has exited and been waited on
\* (returncode is set), whichever way the handler left: peer disconnect, a
\* task ending, an exception in the receive loop.
C1_NoOrphanProcess == (Over /\ Spawned) => proc = "exited"

\* A session that left through an exception in the relay and had to
\* force-kill its process.
C1_Witness ==
    /\ pc = "returned" /\ Spawned /\ exc
    /\ termSent = 1 /\ killSent = 1 /\ proc = "exited"

\* C2.  Liveness on disconnect: in both channels, once the peer has closed
\* the connection of a session that spawned its process, the handler
\* eventually returns with the process reaped, having sent at most one
\* terminate and one kill.
C2_DisconnectReaps ==
    /\ [](termSent <= 1 /\ killSent <= 1)
    /\ (peer = "closed" /\ Spawned) ~> (pc = "returned" /\ proc = "exited")

\* The line "a\n".
Line1 == <<97, 10>>

\* C3.  Watch channel, process exit drives teardown: when the watcher has
\* written the one line "a\n" to stdout and exited on its own, then, unless
\* the peer disconnects or an exception is raised, the session eventually
\* ends with exactly that one stdout message delivered and no error message.
C3_WatchExitTearsDown ==
    ( /\ channel = "watch" /\ proc = "exited" /\ termSent = 0
      /\ unitsRead = [s \in Streams |-> IF s = "stdout" THEN <<Line1>> ELSE <<>>]
      /\ outBuf = [s \in Streams |-> <<>>] )
    ~> ( \/ peer = "closed" \/ exc
         \/ /\ pc = "returned"
            /\ sent = <<[msg |-> StreamMsg("stdout", Decode(Line1).text), ok |-> TRUE]>> )

\* C4.  Per-stream ordering: at every moment the messages of a stream that
\* reached the peer are, one for one and in order, the decoded units of a
\* prefix of the units read from that stream; encoding a message's text
\* gives back the bytes of its unit.
C4_PerStreamOrder ==
    \A s \in Streams :
        LET D == Delivered(s) IN
        /\ Len(D) <= Len(unitsRead[s])
        /\ \A i \in 1..Len(D) :
              /\ Decode(unitsRead[s][i]).ok
              /\ D[i].msg.data = Decode(unitsRead[s][i]).text
              /\ Encode(D[i].msg.data).bytes = unitsRead[s][i]

\* Two different units of one stream delivered.
C4_Witness ==
    /\ Len(Delivered("stdout")) = 2
    /\ Delivered("stdout")[1].msg.data # Delivered("stdout")[2].msg.data

\* The step in which the inbound relay takes the frame at the head of the
\* inbox (in the terminal channel nothing else receives).
RelayTakes == channel = "terminal" /\ inbox # <<>> /\ inbox' = Tail(inbox)

\* The frame is JSON text holding an object tagged "stdin".
StdinTagged(f) ==
    /\ f.kind = "text"
    /\ LET v == JsonLoads(f.raw) IN v.ok /\ v.obj /\ v.type = "stdin"

\* ... whose data is text.
WellFormedStdin(f) == StdinTagged(f) /\ JsonLoads(f.raw).str

\* ... that UTF-8 can encode.
EncodableStdin(f) ==
    /\ WellFormedStdin(f)
    /\ \A i \in 1..Len(JsonLoads(f.raw).data) : ~IsSurrogate(JsonLoads(f.raw).data[i])

\* C5.  Malformed or unknown inbound messages never end a terminal session:
\* when the relay takes a frame that is not a well-formed stdin command, it
\* stays in its receive loop, nothing is written to the process and
\* teardown does not begin.
C5_MalformedIgnored ==
    [][ (RelayTakes /\ ~WellFormedStdin(Head(inbox)))
        => (task'[Relay] = "recv" /\ stdinWrites' = stdinWrites /\ tdBegun' = tdBegun) ]_vars

\* C6.  Terminal first-to-finish: teardown has begun only if one of the
\* three tasks has completed, and once one has completed teardown begins.
C6_FirstToFinish ==
    /\ []((channel = "terminal" /\ tdBegun) => AnyTaskDone)
    /\ (channel = "terminal" /\ AnyTaskDone) ~> tdBegun

\* Teardown begun with one reader finished and the other two tasks running.
C6_Witness ==
    /\ channel = "terminal" /\ tdBegun
    /\ task = [t \in TaskNames |->
                  IF t = "stdout" THEN "done" ELSE IF t = "stderr" THEN "read" ELSE "recv"]

\* C7.  Terminal channel with an empty environment identifier: nothing is
\* spawned, no task is started, nothing is written; the only message is the
\* one {"error": ...}, which carries no type; and when the handler is over
\* that message has been sent once and the connection is closed.
C7_EmptyEnvId ==
    (channel = "terminal" /\ envId = "") =>
        /\ proc = "none" /\ spawns = 0 /\ stdinWrites = <<>>
        /\ \A t \in TaskNames : task[t] = "none"
        /\ Len(sent) <= 1
        /\ \A i \in 1..Len(sent) :
              sent[i].msg.type \notin {"stdout", "stderr", "error"} /\ sent[i].msg = EnvIdMsg
        /\ Over => (Len(sent) = 1 /\ (wsClosed \/ peer = "closed"))
        /\ pc = "returned" => (wsClosed /\ sent[1].ok)

C7_Witness ==
    /\ channel = "terminal" /\ envId = "" /\ pc = "returned" /\ wsClosed
    /\ sent = <<[msg |-> EnvIdMsg, ok |-> TRUE]>>

\* What a step may do to the writes when the relay takes frame f and the
\* frame's payload is to be written: one write is added at the end, and it
\* decodes to the payload.
OneWriteOf(f) ==
    /\ Len(stdinWrites') = Len(stdinWrites) + 1
    /\ SubSeq(stdinWrites', 1, Len(stdinWrites)) = stdinWrites
    /\ JsonLoads(f.raw).str =>
          Decode(stdinWrites'[Len(stdinWrites')]) = [ok |-> TRUE, text |-> JsonLoads(f.raw).data]

\* C8 as stated.  Every stdin-tagged message (JSON object, type "stdin",
\* data a text) the relay takes is written once, unaltered and in order;
\* nothing else writes.
C8_Original ==
    [][ IF RelayTakes /\ WellFormedStdin(Head(inbox))
        THEN OneWriteOf(Head(inbox))
        ELSE stdinWrites' = stdinWrites ]_vars

\* C8, amended.  Every stdin-tagged message the relay takes whose data is
\* text that UTF-8 can encode is written once, unaltered and in order; no
\* other message, and no other step, writes.
C8_StdinRelayExact ==
    [][ IF RelayTakes /\ EncodableStdin(Head(inbox))
        THEN OneWriteOf(Head(inbox))
        ELSE stdinWrites' = stdinWrites ]_vars

\* Two payloads written in the order they were sent, one of them multi-byte.
C8_Witness == stdinWrites = <<<<97>>, <<195, 169>>>>

\* Every message that reports an error, typed or not.
AllErrors == SelectSeq(sent, LAMBDA r : r.msg.type \in {"error", ""})

SpawnFailed == spawns > 0 /\ proc = "none"

\* C10.  Spawn failure is terminal and not retried: there is one spawn
\* attempt at most; after a failed one no task is started, no signal is
\* sent, nothing is written, and the handler ends having sent exactly the
\* one error message.
C10_SpawnFailure ==
    /\ spawns <= 1
    /\ SpawnFailed =>
          /\ pc \in {"except", "returned"}
          /\ \A t \in TaskNames : task[t] = "none"
          /\ termSent = 0 /\ killSent = 0 /\ stdinWrites = <<>> /\ ~tdBegun
          /\ Len(sent) <= 1
          /\ pc = "returned" => (Len(sent) = 1 /\ sent[1].msg = ErrorMsg)

C10_Witness ==
    /\ SpawnFailed /\ pc = "returned"
    /\ sent = <<[msg |-> ErrorMsg, ok |-> TRUE]>>

HasPhrase(t) == In(NotFound, Lower(t)) \/ In(DoesNotExist, Lower(t))

Rejected ==
    \/ http.environment_id = ""
    \/ http.route = "actions" /\ http.action \notin {"apply", "checkout", "delete", "merge"}

\* C11.  Exit code to HTTP status for get-logs, get-diff and execute-action:
\* a missing identifier or an action outside {apply, checkout, delete,
\* merge} gives 400 and no command is run; otherwise the command is run
\* once, and a zero exit gives success with stdout returned, a non-zero exit
\* gives 404 whenever stderr or stdout contains "not found" or "does not
\* exist" in any case (also when stderr is non-empty without the phrase and
\* stdout has it), and every other non-zero exit gives 500.
C11_StatusMapping ==
    http.pc = "done" =>
        IF Rejected THEN http.status = 400 /\ http.ran = 0
        ELSE /\ http.ran = 1
             /\ http.status =
                   IF http.result.return_code = 0 THEN 200
                   ELSE IF HasPhrase(http.result.stderr) \/ HasPhrase(http.result.stdout)
                        THEN 404 ELSE 500
             /\ http.status = 200 => http.body = http.result.stdout

\* C12.  Teardown ordering: when the input stream has been closed or the
\* graceful-terminate signal sent, every reader and relay task has already
\* finished or acknowledged its cancellation (none is running while the
\* process is terminated and waited on); and the input stream of a terminal
\* session is closed by the time the signal is sent.
C12_TeardownOrder ==
    /\ (stdinState = "closed" \/ termSent > 0) =>
           \A t \in TaskNames : task[t] = "none" \/ Finished(t)
    /\ (channel = "terminal" /\ termSent > 0) => stdinState = "closed"

\* The process input pipe is closed or broken: a write or a flush fails.
PipeBroken == stdinState # "open" \/ proc # "running"

\* C13.  A broken input pipe does not tear down the session: a step in
\* which the relay writes a stdin payload to, or resumes a flush on, a
\* closed or broken pipe does not end the relay, and teardown does not
\* begin in that step.
C13_BrokenPipeSwallowed ==
    [][ ( /\ channel = "terminal" /\ PipeBroken
          /\ \/ RelayTakes /\ EncodableStdin(Head(inbox))
             \/ task[Relay] = "drain" )
        => (task'[Relay] # "done" /\ tdBegun' = tdBegun) ]_vars

\* C14.  Undecodable bytes never end a reader: in the step in which a
\* reader, with the peer connected, deals with a unit that is not valid
\* UTF-8, a message of its stream is sent for the unit, the reader goes back
\* to reading, and teardown does not begin.
C14_UndecodableForwarded ==
    [][ \A s \in Streams :
          (task[s] = "send" /\ ~Decode(cur[s]).ok /\ peer = "open" /\ cur'[s] # cur[s])
          => /\ task'[s] = "read"
             /\ Len(sent') = Len(sent) + 1
             /\ sent'[Len(sent')].msg.type = s
             /\ tdBegun' = tdBegun ]_vars

\* C15.  Exactly-once teardown: whatever triggers occur and in whichever
\* order, every step that sends the graceful-terminate signal sends the
\* first and only one, every step that sends the force-kill signal sends
\* the first and only one, and a signal is sent only while the process is
\* not known to have exited (returncode is None).
C15_SignalsOnce ==
    [][ /\ termSent' # termSent => (termSent = 0 /\ termSent' = 1 /\ proc = "running")
        /\ killSent' # killSent => (killSent = 0 /\ killSent' = 1 /\ proc = "running")
      ]_vars

\* A terminal session in which a reader ended, the peer disconnected and the
\* process had to be killed: each signal was sent once.
C15_Witness ==
    /\ channel = "terminal" /\ pc = "returned" /\ peer = "closed"
    /\ task["stdout"] = "done" /\ task[Relay] = "done"
    /\ termSent = 1 /\ killSent = 1 /\ proc = "exited"

\* C16.  Timeout escalation: a force-kill is sent only from the bounded
\* wait of a teardown that sent the graceful-terminate, with the process
\* still running, and is followed by the wait without a bound; when the
\* process has exited within the bound no force-kill is sent; the wait
\* after a force-kill is left only once the process has exited; and the
\* timeout raises nothing and sends nothing: an error message is sent only
\* for an exception raised before teardown began.
C16_TimeoutEscalation ==
    /\ [][ killSent' # killSent =>
             /\ pc = "td_wait" /\ termSent = 1 /\ proc = "running"
             /\ pc' = "td_reap" /\ exc' = exc /\ sent' = sent ]_vars
    /\ [][ (pc = "td_wait" /\ proc = "exited") => killSent' = killSent ]_vars
    /\ [][ (pc = "td_reap" /\ pc' # "td_reap") => proc = "exited" ]_vars
    /\ [][ tdBegun => exc' = exc ]_vars
    /\ [](ErrorsSent # <<>> => exc)

\* A watch session left through the peer's disconnect whose watcher ignored
\* the graceful-terminate: killed, reaped, and no error message.
C16_Witness ==
    /\ channel = "watch" /\ pc = "returned" /\ ~exc
    /\ termSent = 1 /\ killSent = 1 /\ proc = "exited"
    /\ ErrorsSent = <<>>

\* C17.  No task outlives its session: once the handler of a session that
\* spawned its process is over, every reader task and (terminal) the relay
\* task has finished on its own or has acknowledged its cancellation, on
\* the exception path as well.
C17_NoTaskOutlives ==
    (Over /\ Spawned) =>
        \A i \in 1..Len(TaskList) : Finished(TaskList[i])

\* A watch session left through an exception, one reader finished on its own
\* and the other cancelled.
C17_Witness ==
    /\ channel = "watch" /\ pc = "returned" /\ exc
    /\ task["stdout"] = "cancelled" /\ task["stderr"] = "done"

\* C18.  The input stream is always closed by teardown: once the handler of
\* a terminal session that spawned its process is over, the process input
\* stream has been closed, also when the process had exited on its own
\* before teardown began.
C18_StdinClosed ==
    (channel = "terminal" /\ Spawned /\ Over) => stdinState = "closed"

\* The text is one complete line: it ends with "\n" and has no other.
CompleteLine(text) ==
    /\ text # <<>>
    /\ \A i \in 1..Len(text) : (text[i] = 10) <=> (i = Len(text))

\* C19.  Partial final line in the watch channel: every stdout or stderr
\* message sent on the watch channel carries exactly one complete line; an
\* unterminated last fragment of a stream is sent in no message.
C19_WholeLinesOnly ==
    channel = "watch" =>
        \A i \in 1..Len(sent) :
            sent[i].msg.type \in Streams => CompleteLine(sent[i].msg.data)

\* C20.  No input write races with teardown: in a terminal session a write
\* to the process input stream is attempted only while teardown has neither
\* closed that stream nor sent the graceful-terminate signal.
C20_NoWriteAfterClose ==
    [][ (channel = "terminal" /\ stdinWrites' # stdinWrites)
        => (stdinState = "open" /\ termSent = 0) ]_vars

====
